---- MODULE Spec2Model ----
(***************************************************************************)
(* A model of the radiometric calibration code of camera_calibration:      *)
(*   - spectacle/calibrate.py : the correction stages (bias, dark current, *)
(*     flat field, ISO normalisation, gain);                                *)
(*   - spectacle/metadata.py  : the Camera record and its Bayer map;        *)
(*   - calibration/iso_normalisation.py : the ISO normalisation script.     *)
(* Pixel values are exact rationals <<n, d>> with d >= 0; d = 0 encodes the *)
(* IEEE values numpy produces on a division by zero (<<1,0>> = +inf,        *)
(* <<-1,0>> = -inf, <<0,0>> = nan).  Rounding of binary floats is not       *)
(* modelled.                                                                *)
(***************************************************************************)
EXTENDS Integers, Sequences, FiniteSets, TLC

VARIABLES
    store,      \* calibration products on disk: kind -> [exists, map]
    meta,       \* the metadata file info.json: [valid, bias]
    input,      \* the array first handed to the chain
    data,       \* the array the caller holds now (result of the last stage)
    argAfter,   \* contents of the array object passed to the last stage, after it
    aliased,    \* whether the last stage returned the very object it was given
    err,        \* "none", or the exception the last stage raised
    hist,       \* the stages applied so far, with their arguments
    used,       \* what correct_bias used: "none", "map" or "metadata"
    isoArg,     \* the iso_values normalise_iso was called with
    path        \* the helper normalise_iso called: "none", "single", "multiple"

pvars == <<store, meta, input, data, argAfter, aliased, err, hist, used, isoArg,
           path>>

VARIABLES
    camState,   \* "none", "made" (a Camera was constructed) or "failed"
    camArgs,    \* the device, image and settings records given to Camera(...)
    camera,     \* the Camera object constructed
    camErr,     \* "none", or the exception the last Camera operation raised
    camFile,    \* the metadata file: a sequence of <<group name, record>>
    camRead     \* the Camera read back from the metadata file

cvars == <<camState, camArgs, camera, camErr, camFile, camRead>>

VARIABLES
    ipc,        \* where calibration/iso_normalisation.py is
    isoCamera,  \* the camera it loaded: [ISO_min, ISO_max, bias]
    isos,       \* the ISO speed of every stack, in file order
    means,      \* the mean image of every stack
    stds,       \* the standard-deviation image of every stack
    ratios,     \* the mean images divided by the one of the lowest ISO speed
    ratiosMean, \* the mean of every ratio image
    ratiosVar,  \* the variance (squared standard deviation) of every ratio image
    isoModel,   \* the model the fit chose
    isoFiles,   \* the files written: name -> contents
    isoErr      \* "none", or the exception that ended the script

ivars == <<ipc, isoCamera, isos, means, stds, ratios, ratiosMean, ratiosVar,
           isoModel, isoFiles, isoErr>>

VARIABLES
    fpc,            \* where calibration/flatfield.py is
    flatCamera,     \* the camera it loaded: [bias, bayer_map]
    flatMean,       \* the mean flat-field image
    flatStds,       \* the standard-deviation image
    meanNormalised, \* the mean image, every channel normalised
    stdsNormalised, \* the standard deviations, normalised alike
    flatfieldGauss, \* the normalised mean image, smoothed
    correction,     \* 1 / flatfieldGauss
    correctionRaw,  \* 1 / meanNormalised
    correctionClipped, \* correction without its border
    flatParameters, \* the parameters of the fitted vignetting model
    flatFiles,      \* the files written: name -> contents
    flatErr         \* "none", or the exception that ended the script

fvars == <<fpc, flatCamera, flatMean, flatStds, meanNormalised, stdsNormalised,
           flatfieldGauss, correction, correctionRaw, correctionClipped,
           flatParameters, flatFiles, flatErr>>

vars == <<pvars, cvars, ivars, fvars>>

(***************************************************************************)
(* Bounds of the model.                                                     *)
(***************************************************************************)
\* Largest number of rows and of columns of an input array.
MaxDim == 4

(***************************************************************************)
(* Exact arithmetic on pixel values.                                        *)
(***************************************************************************)
Sign(n) == IF n > 0 THEN 1 ELSE IF n < 0 THEN -1 ELSE 0

Abs(n) == IF n < 0 THEN -n ELSE n

RECURSIVE GCD(_, _)
GCD(a, b) == IF b = 0 THEN a ELSE GCD(b, a % b)

\* The value n/d in lowest terms; d = 0 gives +inf, -inf or nan.
Norm(n, d) ==
    IF d = 0 THEN <<Sign(n), 0>>
    ELSE LET g == GCD(Abs(n), Abs(d))
         IN  <<Sign(d) * (n \div g), Abs(d) \div g>>

Q(n, d) == Norm(n, d)

IsFinite(a) == a[2] # 0

IsNan(a) == a = <<0, 0>>

\* a - b, as in `data - bias`.
RSub(a, b) ==
    IF a[2] = 0 /\ b[2] = 0
    THEN IF a[1] # 0 /\ b[1] # 0 /\ a[1] # b[1] THEN a ELSE <<0, 0>>
    ELSE Norm(a[1] * b[2] - b[1] * a[2], a[2] * b[2])

\* a * b, as in `dark_current * exposure_time`.
RMul(a, b) == Norm(a[1] * b[1], a[2] * b[2])

\* a / b, numpy true division: x/0 is +-inf, 0/0 is nan, no exception.
RDiv(a, b) == Norm(a[1] * b[2], a[2] * b[1])

(***************************************************************************)
(* numpy arrays: a shape (<<>> for a scalar, <<rows, cols>> for an image)    *)
(* and a value for every index.                                             *)
(***************************************************************************)
Idx(shape) ==
    IF shape = <<>> THEN {<<>>} ELSE (1 .. shape[1]) \X (1 .. shape[2])

Uniform(shape, v) == [shape |-> shape, val |-> [p \in Idx(shape) |-> v]]

Scalar(v) == Uniform(<<>>, v)

\* Stands for "no array": what a call that raised has returned.
NoArray == [shape |-> <<>>, val |-> [p \in {} |-> <<0, 1>>]]

\* numpy's broadcasting rule for one axis.
DimOK(m, n) == m = n \/ m = 1 \/ n = 1

BDim(m, n) == IF m = 1 THEN n ELSE m

Compatible(s, t) ==
    s = <<>> \/ t = <<>> \/ (DimOK(s[1], t[1]) /\ DimOK(s[2], t[2]))

BShape(s, t) ==
    IF s = <<>> THEN t
    ELSE IF t = <<>> THEN s
    ELSE <<BDim(s[1], t[1]), BDim(s[2], t[2])>>

\* The element of a that index p of the broadcast result reads.
Pick(a, p) ==
    IF a.shape = <<>> THEN a.val[<<>>]
    ELSE a.val[<<IF a.shape[1] = 1 THEN 1 ELSE p[1],
                 IF a.shape[2] = 1 THEN 1 ELSE p[2]>>]

\* An element-wise binary operation of numpy on two arrays: a new array of
\* the broadcast shape, or ValueError when the shapes cannot be broadcast.
Apply(op, x, y) ==
    CASE op = "-" -> RSub(x, y)
      [] op = "*" -> RMul(x, y)
      [] op = "/" -> RDiv(x, y)

Elementwise(op, a, b) ==
    IF Compatible(a.shape, b.shape)
    THEN [err |-> "none",
          ret |-> [shape |-> BShape(a.shape, b.shape),
                   val |-> [p \in Idx(BShape(a.shape, b.shape)) |->
                               Apply(op, Pick(a, p), Pick(b, p))]]]
    ELSE [err |-> "ValueError", ret |-> NoArray]

(***************************************************************************)
(* The calibration products of one camera (the folder `root`).              *)
(***************************************************************************)
Kinds == {"bias", "dark_current", "flat_field", "iso_lookup", "gain"}

File(a) == [exists |-> TRUE, map |-> a]

Absent == [exists |-> FALSE, map |-> NoArray]

\* Number of pixels flat.clip_data removes at every edge of an image.
Border == 1

\* bias_readnoise.load_bias_map: the bias map file, FileNotFoundError without it.
load_bias_map(st) ==
    IF st["bias"].exists
    THEN [err |-> "none", ret |-> st["bias"].map]
    ELSE [err |-> "FileNotFoundError", ret |-> NoArray]

\* bias_readnoise.load_bias_metadata: the scalar bias of info.json.
load_bias_metadata(m) ==
    IF m.valid
    THEN [err |-> "none", ret |-> Scalar(m.bias)]
    ELSE [err |-> "ConfigurationError", ret |-> NoArray]

\* The loaders of the other products: the file, or the not-found error.
load_product(st, kind) ==
    IF st[kind].exists
    THEN [err |-> "none", ret |-> st[kind].map]
    ELSE [err |-> "CalibrationNotFoundError", ret |-> NoArray]

load_dark_current_map(st) == load_product(st, "dark_current")

load_flat_field_correction_map(st) == load_product(st, "flat_field")

load_gain_map(st) == load_product(st, "gain")

load_iso_lookup_table(st) == load_product(st, "iso_lookup")

\* flat.clip_data: the image without its outer Border rows and columns.
ClipDim(n) == IF n > 2 * Border THEN n - 2 * Border ELSE 0

clip_data(a) ==
    [shape |-> <<ClipDim(a.shape[1]), ClipDim(a.shape[2])>>,
     val |-> [p \in Idx(<<ClipDim(a.shape[1]), ClipDim(a.shape[2])>>) |->
                 a.val[<<p[1] + Border, p[2] + Border>>]]]

(***************************************************************************)
(* What a stage leaves behind: the exception it raised ("none" if it        *)
(* returned), the array it returned, the contents of the array object it    *)
(* was given, whether it returned that very object, the products on disk,   *)
(* and (for correct_bias) which bias it used.                               *)
(***************************************************************************)
Raised(e, d, st) ==
    [err |-> e, ret |-> NoArray, arg |-> d, alias |-> FALSE, store |-> st,
     used |-> "none"]

\* `data <op> artifact`: numpy allocates the result; data is only read.
Returned(r, d, st, u) ==
    [err |-> r.err, ret |-> r.ret, arg |-> d, alias |-> FALSE, store |-> st,
     used |-> IF r.err = "none" THEN u ELSE "none"]

\* `data <op>= artifact; return data`: the in-place form the code does not use.
ReturnedInPlace(r, d, st, u) ==
    [err |-> r.err, ret |-> r.ret, arg |-> IF r.err = "none" THEN r.ret ELSE d,
     alias |-> r.err = "none", store |-> st,
     used |-> IF r.err = "none" THEN u ELSE "none"]

(***************************************************************************)
(* spectacle/calibrate.py                                                   *)
(***************************************************************************)
correct_bias_metadata_first(st, m, d) ==
    LET fromMeta == load_bias_metadata(m)
        loaded == load_bias_map(st)
    IN  IF fromMeta.err = "none"
        THEN Returned(Elementwise("-", d, fromMeta.ret), d, st, "metadata")
        ELSE IF loaded.err = "none"
        THEN Returned(Elementwise("-", d, loaded.ret), d, st, "map")
        ELSE Raised(loaded.err, d, st)

correct_bias_in_place(st, m, d) ==
    LET loaded == load_bias_map(st)
        fromMeta == load_bias_metadata(m)
    IN  IF loaded.err = "none"
        THEN ReturnedInPlace(Elementwise("-", d, loaded.ret), d, st, "map")
        ELSE IF fromMeta.err = "none"
        THEN ReturnedInPlace(Elementwise("-", d, fromMeta.ret), d, st, "metadata")
        ELSE Raised(fromMeta.err, d, st)

correct_bias(st, m, d) ==
    LET loaded == load_bias_map(st)
        fromMeta == load_bias_metadata(m)
    IN  IF loaded.err = "none"
        THEN Returned(Elementwise("-", d, loaded.ret), d, st, "map")
        ELSE IF fromMeta.err = "none"
        THEN Returned(Elementwise("-", d, fromMeta.ret), d, st, "metadata")
        ELSE Raised(fromMeta.err, d, st)

correct_dark_current_unscaled(st, d, t) ==
    LET loaded == load_dark_current_map(st)
    IN  IF loaded.err # "none" THEN Raised(loaded.err, d, st)
        ELSE Returned(Elementwise("-", d, loaded.ret), d, st, "none")

correct_dark_current_default_rate(st, d, t) ==
    LET loaded == load_dark_current_map(st)
        rate == IF loaded.err # "none" THEN Scalar(Q(0, 1)) ELSE loaded.ret
        dark_total == Elementwise("*", rate, Scalar(t))
    IN  Returned(Elementwise("-", d, dark_total.ret), d, st, "none")

correct_dark_current(st, d, t) ==
    LET loaded == load_dark_current_map(st)
        dark_total == Elementwise("*", loaded.ret, Scalar(t))
    IN  IF loaded.err # "none" THEN Raised(loaded.err, d, st)
        ELSE Returned(Elementwise("-", d, dark_total.ret), d, st, "none")

convert_to_photoelectrons(st, d) ==
    LET loaded == load_gain_map(st)
    IN  IF loaded.err # "none" THEN Raised(loaded.err, d, st)
        ELSE Returned(Elementwise("/", d, loaded.ret), d, st, "none")

correct_flatfield_unclipped(st, d) ==
    LET loaded == load_flat_field_correction_map(st)
    IN  IF loaded.err # "none" THEN Raised(loaded.err, d, st)
        ELSE Returned(Elementwise("*", d, loaded.ret), d, st, "none")

correct_flatfield(st, d) ==
    LET loaded == load_flat_field_correction_map(st)
        data_clipped == clip_data(d)
    IN  IF loaded.err # "none" THEN Raised(loaded.err, d, st)
        ELSE Returned(Elementwise("*", data_clipped, loaded.ret), d, st, "none")

\* Largest ISO speed of the lookup tables the stages are run with.
TableISOMax == 2

\* An ISO value as the caller passes it: its Python type and its numbers
\* (one number for a scalar, one per frame for an array).
IsoValue(type, vals) == [type |-> type, vals |-> vals]

\* Column iso + 1 of the table holds the factor of ISO speed iso.
Lookup(table, iso) == table.val[<<1, iso + 1>>]

InTable(table, iso) == iso >= 0 /\ iso + 1 <= table.shape[2]

\* iso.normalise_single_iso: every pixel divided by the factor of the one ISO.
normalise_single_iso(d, iso_values, table) ==
    IF InTable(table, iso_values.vals[1])
    THEN Elementwise("/", d, Scalar(Lookup(table, iso_values.vals[1])))
    ELSE [err |-> "IndexError", ret |-> NoArray]

\* iso.normalise_multiple_iso: frame i (row i of the stack) divided by the
\* factor of the i-th ISO; a 0-d value is broadcast over all frames.
normalise_multiple_iso(d, iso_values, table) ==
    LET n == Len(iso_values.vals)
    IN  IF \E i \in 1 .. n : ~InTable(table, iso_values.vals[i])
        THEN [err |-> "IndexError", ret |-> NoArray]
        ELSE IF iso_values.type # "ndarray"
        THEN Elementwise("/", d, Scalar(Lookup(table, iso_values.vals[1])))
        ELSE Elementwise("/", d,
                 [shape |-> <<n, 1>>,
                  val |-> [p \in Idx(<<n, 1>>) |-> Lookup(table, iso_values.vals[p[1]])]])

\* The types of the ISO values callers pass.  numpy.float64 derives from
\* Python's float; numpy.int64 does not derive from Python's int.
ScalarTypes == {"int", "float", "numpy.int64", "numpy.float64"}

\* isinstance(iso_values, (int, float))
isinstance_int_float(iso_values) ==
    iso_values.type \in {"int", "float", "numpy.float64"}

normalise_iso(st, d, iso_values) ==
    LET loaded == load_iso_lookup_table(st)
    IN  IF loaded.err # "none" THEN Raised(loaded.err, d, st)
        ELSE IF isinstance_int_float(iso_values)
        THEN Returned(normalise_single_iso(d, iso_values, loaded.ret), d, st, "single")
        ELSE Returned(normalise_multiple_iso(d, iso_values, loaded.ret), d, st,
                      "multiple")

(***************************************************************************)
(* spectacle/metadata.py: the Camera record.                                *)
(***************************************************************************)
\* Largest number of rows and of columns of a sensor.
MaxSensorDim == 3

DeviceFields == {"manufacturer", "name"}

ImageFields == {"shape", "raw_extension", "bias", "bayer_pattern", "bit_depth"}

SettingsFields == {"ISO_min", "ISO_max", "exposure_min", "exposure_max"}

\* Python sequences keep their type: json turns a tuple into a list.
PyTuple(v) == [py |-> "tuple", v |-> v]

PyList(v) == [py |-> "list", v |-> v]

\* namedtuple(**properties): TypeError unless exactly the fields are given.
NamedTuple(fields, properties) ==
    IF DOMAIN properties = fields
    THEN [err |-> "none", ret |-> properties]
    ELSE [err |-> "TypeError", ret |-> [f \in {} |-> 0]]

\* bayer_map[r0::2, c0::2] = v, on an array indexed from 1.
SetSlice(m, r0, c0, v) ==
    [p \in DOMAIN m |->
        IF /\ p[1] - 1 >= r0 /\ (p[1] - 1 - r0) % 2 = 0
           /\ p[2] - 1 >= c0 /\ (p[2] - 1 - c0) % 2 = 0
        THEN v ELSE m[p]]

generate_bayer_map_swapped(image) ==
    LET shape == image["shape"].v
        pat == image["bayer_pattern"]
        zeros == [p \in Idx(shape) |-> 0]
        m1 == SetSlice(zeros, 0, 0, pat[1][1])
        m2 == SetSlice(m1, 1, 0, pat[1][2])
        m3 == SetSlice(m2, 0, 1, pat[2][1])
        m4 == SetSlice(m3, 1, 1, pat[2][2])
    IN  [shape |-> shape, val |-> m4]

generate_bayer_map(image) ==
    LET shape == image["shape"].v
        pat == image["bayer_pattern"]
        zeros == [p \in Idx(shape) |-> 0]
        m1 == SetSlice(zeros, 0, 0, pat[1][1])
        m2 == SetSlice(m1, 0, 1, pat[1][2])
        m3 == SetSlice(m2, 1, 0, pat[2][1])
        m4 == SetSlice(m3, 1, 1, pat[2][2])
    IN  [shape |-> shape, val |-> m4]

NoRecord == [f \in {} |-> 0]

NoBayerMap == [shape |-> <<>>, val |-> [p \in {} |-> 0]]

NoCamera ==
    [device |-> NoRecord, image |-> NoRecord, settings |-> NoRecord,
     bayer_map |-> NoBayerMap]

\* A Camera whose records are stored unchecked: what __init__ would build if
\* it kept the dictionaries and left a missing field to the first access.
Camera_init_lazy(device_properties, image_properties, settings) ==
    IF DOMAIN image_properties = ImageFields
    THEN [err |-> "none",
          ret |-> [device |-> device_properties, image |-> image_properties,
                   settings |-> settings,
                   bayer_map |-> generate_bayer_map(image_properties)]]
    ELSE [err |-> "TypeError", ret |-> NoCamera]

\* Camera.__init__
Camera_init(device_properties, image_properties, settings) ==
    LET device == NamedTuple(DeviceFields, device_properties)
        image == NamedTuple(ImageFields, image_properties)
        sett == NamedTuple(SettingsFields, settings)
    IN  IF device.err # "none" THEN [err |-> device.err, ret |-> NoCamera]
        ELSE IF image.err # "none" THEN [err |-> image.err, ret |-> NoCamera]
        ELSE IF sett.err # "none" THEN [err |-> sett.err, ret |-> NoCamera]
        ELSE [err |-> "none",
              ret |-> [device |-> device.ret, image |-> image.ret,
                       settings |-> sett.ret,
                       bayer_map |-> generate_bayer_map(image.ret)]]

\* json.dump of a value: a tuple is written as a list.
ToJson(record) ==
    [f \in DOMAIN record |->
        IF f = "shape" THEN PyList(record[f].v) ELSE record[f]]

\* Camera._as_dict and write_json: the three groups, in this order.
Camera_as_dict(c) ==
    <<<<"device", ToJson(c.device)>>, <<"image", ToJson(c.image)>>,
      <<"settings", ToJson(c.settings)>>>>

NoFile == <<>>

\* Camera.read_from_file: the values of the file's groups, in file order.
read_from_file(file) ==
    IF Len(file) # 3 THEN [err |-> "ValueError", ret |-> NoCamera]
    ELSE Camera_init(file[1][2], file[2][2], file[3][2])

(***************************************************************************)
(* The records a Camera is constructed from.                                *)
(***************************************************************************)
Without(record, field) == [f \in DOMAIN record \ {field} |-> record[f]]

FullDevice == [manufacturer |-> "Apple", name |-> "iPhone SE"]

FullImage(shape, pattern) ==
    [shape |-> shape, raw_extension |-> ".dng", bias |-> 528,
     bayer_pattern |-> pattern, bit_depth |-> 12]

FullSettings ==
    [ISO_min |-> 23, ISO_max |-> 200, exposure_min |-> 1, exposure_max |-> 3]

SensorShapes == {<<r, c>> : r, c \in 1 .. MaxSensorDim}

\* Every arrangement of the four channel indices, and two patterns that
\* repeat an index.
BayerPatterns ==
    {<<<<a, b>>, <<c, d>>>> : a, b, c, d \in 0 .. 3} \cap
        {pat \in [1 .. 2 -> [1 .. 2 -> 0 .. 3]] :
            \/ {pat[1][1], pat[1][2], pat[2][1], pat[2][2]} = 0 .. 3
            \/ pat \in {<<<<0, 1>>, <<1, 2>>>>, <<<<1, 0>>, <<2, 1>>>>}}

DeviceInputs == {FullDevice} \cup {Without(FullDevice, f) : f \in DeviceFields}

ImageInputs ==
    {FullImage(PyTuple(s), pat) : s \in SensorShapes, pat \in BayerPatterns}
    \cup {FullImage(PyList(s), <<<<0, 1>>, <<2, 3>>>>) : s \in SensorShapes}
    \cup {Without(FullImage(PyTuple(<<MaxSensorDim, MaxSensorDim>>),
                            <<<<0, 1>>, <<2, 3>>>>), f) : f \in ImageFields}

SettingsInputs ==
    {FullSettings} \cup {Without(FullSettings, f) : f \in SettingsFields}

CameraIdle ==
    /\ camState = "none"
    /\ camArgs = <<>>
    /\ camera = NoCamera
    /\ camErr = "none"
    /\ camFile = NoFile
    /\ camRead = NoCamera

(***************************************************************************)
(* calibration/iso_normalisation.py                                         *)
(***************************************************************************)
\* Largest ISO speed of the camera the script is run for.
ScriptISOMax == 3

\* a + b and a < b on pixel values.
RAdd(a, b) == RSub(a, <<-b[1], b[2]>>)

RLess(a, b) == IsFinite(a) /\ IsFinite(b) /\ a[1] * b[2] < b[1] * a[2]

RECURSIVE SumOver(_, _)
SumOver(f, S) ==
    IF S = {} THEN Q(0, 1)
    ELSE LET p == CHOOSE q \in S : TRUE
         IN  RAdd(f[p], SumOver(f, S \ {p}))

\* image.mean(): the mean of the pixels of one image.
ImageMean(a) == RDiv(SumOver(a.val, DOMAIN a.val), Q(Cardinality(DOMAIN a.val), 1))

\* image.std() squared: the mean squared deviation from the mean.
ImageVar(a) ==
    LET m == ImageMean(a)
        sq == [p \in DOMAIN a.val |-> RMul(RSub(a.val[p], m), RSub(a.val[p], m))]
    IN  RDiv(SumOver(sq, DOMAIN sq), Q(Cardinality(DOMAIN sq), 1))

\* isos.min() and isos.argmin(): the lowest ISO speed and its first position.
MinIso(speeds) == CHOOSE m \in {speeds[i] : i \in 1 .. Len(speeds)} :
                      \A i \in 1 .. Len(speeds) : m <= speeds[i]

ArgMinIso(speeds) == CHOOSE i \in 1 .. Len(speeds) :
                         /\ speeds[i] = MinIso(speeds)
                         /\ \A j \in 1 .. i - 1 : speeds[j] # MinIso(speeds)

\* The assertion of line 44.
LowestIsoCheck_at_least(speeds, cam) == MinIso(speeds) >= cam.ISO_min

LowestIsoCheck(speeds, cam) == MinIso(speeds) = cam.ISO_min

\* camera.correct_bias(means): the bias taken off every mean image.
correct_bias_stack(cam, stack) ==
    [i \in 1 .. Len(stack) |-> Elementwise("-", stack[i], Scalar(cam.bias)).ret]

\* means / means[isos.argmin()]
normalise_ratios(speeds, stack) ==
    [i \in 1 .. Len(stack) |->
        Elementwise("/", stack[i], stack[ArgMinIso(speeds)]).ret]

\* The candidate models of iso.fit_iso_normalisation_relation: a line through
\* (min_iso, 1), and the same line held constant from a knee on.
NoModel == [type |-> "none", slope |-> Q(0, 1), knee |-> 0, min_iso |-> 0]

Slopes == {Q(0, 1), Q(1, 3), Q(1, 2), Q(1, 1)}

CandidateModels(min_iso, max_iso) ==
    {[type |-> "Linear", slope |-> sl, knee |-> max_iso, min_iso |-> min_iso] :
        sl \in Slopes}
    \cup {[type |-> "Knee", slope |-> sl, knee |-> k, min_iso |-> min_iso] :
            sl \in Slopes \ {Q(0, 1)}, k \in min_iso + 1 .. max_iso - 1}

\* model(iso): the factor the model gives at one ISO speed.
Evaluate(model, iso) ==
    LET x == IF iso > model.knee THEN model.knee ELSE iso
    IN  RAdd(Q(1, 1), RMul(model.slope, Q(x - model.min_iso, 1)))

\* One term of the weighted sum of squared residuals, weight 1 / variance.
\* A point of variance 0 has infinite weight: the model has to pass through it.
WeightedSquare(res, var) ==
    IF var = Q(0, 1)
    THEN IF res = Q(0, 1) THEN Q(0, 1) ELSE <<1, 0>>
    ELSE RDiv(RMul(res, res), var)

Cost(model, speeds, rmean, rvar) ==
    LET term == [i \in 1 .. Len(speeds) |->
                    WeightedSquare(RSub(rmean[i], Evaluate(model, speeds[i])), rvar[i])]
    IN  SumOver(term, DOMAIN term)

\* iso.fit_iso_normalisation_relation: a candidate of least weighted cost.
\* The fit fails without a candidate of finite cost; it may fail when a
\* variance is 0, for which no policy is laid down.
fit_iso_normalisation_relation(speeds, rmean, rvar, min_iso, max_iso) ==
    LET cands == CandidateModels(min_iso, max_iso)
        finite == {m \in cands : IsFinite(Cost(m, speeds, rmean, rvar))}
        best == {b \in finite :
                    \A o \in finite : ~RLess(Cost(o, speeds, rmean, rvar),
                                            Cost(b, speeds, rmean, rvar))}
        failure == [err |-> "NumericalFitError", model |-> NoModel]
    IN  IF finite = {} THEN {failure}
        ELSE {[err |-> "none", model |-> m] : m \in best}
             \cup (IF \E i \in 1 .. Len(speeds) : rvar[i] = Q(0, 1)
                   THEN {failure} ELSE {})

\* np.arange(start, stop, 1): the integers from start up to, not including, stop.
arange(start, stop) ==
    [i \in 1 .. (IF stop > start THEN stop - start ELSE 0) |-> start + i - 1]

\* Lines 68-69 with the range ending one step early, and with the range
\* starting at speed 1.
lookup_table_without_max(model, max_iso) ==
    LET iso_range == arange(0, max_iso)
    IN  [i \in DOMAIN iso_range |-> <<iso_range[i], Evaluate(model, iso_range[i])>>]

lookup_table_one_based(model, max_iso) ==
    LET iso_range == arange(1, max_iso + 2)
    IN  [i \in DOMAIN iso_range |-> <<iso_range[i], Evaluate(model, iso_range[i])>>]

\* iso_range = np.arange(0, ISO_max + 1, 1) and model(iso_range), stacked and
\* transposed: one row <<speed, factor>> per element of iso_range.
lookup_table(model, max_iso) ==
    LET iso_range == arange(0, max_iso + 1)
    IN  [i \in DOMAIN iso_range |-> <<iso_range[i], Evaluate(model, iso_range[i])>>]

\* fmt="%i, %.6f": the speed as an integer, the factor rounded to the nearest
\* multiple of 1 / Decimals.
Decimals == 1000000

Round6(v) ==
    IF ~IsFinite(v) THEN v
    ELSE Q(Sign(v[1]) * ((2 * Abs(v[1]) * Decimals + v[2]) \div (2 * v[2])), Decimals)

\* np.savetxt: every row of the table as the text of the file holds it.
savetxt(table) == [i \in DOMAIN table |-> <<table[i][1], Round6(table[i][2])>>]

(***************************************************************************)
(* The stacks the script is run on: frames of 1 x 2 pixels.                 *)
(***************************************************************************)
FrameShape == <<1, 2>>

Frame(v, w) == [shape |-> FrameShape, val |-> [p \in Idx(FrameShape) |->
                                                   IF p[2] = 1 THEN v ELSE w]]

IsoCameras ==
    {[ISO_min |-> m, ISO_max |-> ScriptISOMax, bias |-> Q(b, 1)] :
        m \in {1, 2}, b \in {0, 10}}

\* The speeds of the stacks, in the order of their files.
IsoSpeedLists ==
    {<<a>> : a \in 1 .. ScriptISOMax}
    \cup {s \in (1 .. ScriptISOMax) \X (1 .. ScriptISOMax) : s[1] # s[2]}

\* Scenes: the mean image at ISO speed iso, before the bias is taken off.
Scenes == {"even", "uneven", "dark"}

MeanFrame(scene, iso) ==
    CASE scene = "even" -> Frame(Q(10 + iso, 1), Q(10 + iso, 1))
      [] scene = "uneven" -> Frame(Q(10 + iso, 1), Q(10 + 2 * iso * iso, 1))
      [] scene = "dark" -> Frame(Q(10, 1), Q(10 + iso, 1))

StdFrame(scene, iso) == Frame(Q(1, 1), Q(iso, 2))

IsoIdle ==
    /\ ipc = "idle"
    /\ isoCamera = [ISO_min |-> 0, ISO_max |-> 0, bias |-> Q(0, 1)]
    /\ isos = <<>>
    /\ means = <<>>
    /\ stds = <<>>
    /\ ratios = <<>>
    /\ ratiosMean = <<>>
    /\ ratiosVar = <<>>
    /\ isoModel = NoModel
    /\ isoFiles = [f \in {} |-> <<>>]
    /\ isoErr = "none"

(***************************************************************************)
(* calibration/flatfield.py                                                 *)
(***************************************************************************)
\* Number of rows and of columns of the flat-field images.
FlatDim == 4

FlatShape == <<FlatDim, FlatDim>>

\* The largest value of an image over a set of pixels.
MaxOver(a, S) ==
    a.val[CHOOSE p \in S : \A q \in S : ~RLess(a.val[p], a.val[q])]

\* The pixels of the Bayer channel pixel p belongs to.
ChannelOf(bayer_map, p) ==
    {q \in DOMAIN bayer_map.val : bayer_map.val[q] = bayer_map.val[p]}

\* flat.normalise_RGBG2: every pixel of the mean image, and of the standard
\* deviations, divided by the largest mean of its channel.
normalise_RGBG2(mean, sd, bayer_map) ==
    [mean |-> [shape |-> mean.shape,
               val |-> [p \in DOMAIN mean.val |->
                           RDiv(mean.val[p], MaxOver(mean, ChannelOf(bayer_map, p)))]],
     stds |-> [shape |-> sd.shape,
               val |-> [p \in DOMAIN sd.val |->
                           RDiv(sd.val[p], MaxOver(mean, ChannelOf(bayer_map, p)))]]]

\* gauss_filter_multidimensional: a weighted mean of every pixel and its
\* neighbours, weights 1, 2, 1 along the rows and then along the columns,
\* the image mirrored at its edges.
Reflect(i, n) == IF i < 1 THEN 1 ELSE IF i > n THEN n ELSE i

Blur3(a, b, c) == RDiv(RAdd(RAdd(a, RMul(Q(2, 1), b)), c), Q(4, 1))

GaussRows(a) ==
    [shape |-> a.shape,
     val |-> [p \in DOMAIN a.val |->
                 Blur3(a.val[<<Reflect(p[1] - 1, a.shape[1]), p[2]>>], a.val[p],
                       a.val[<<Reflect(p[1] + 1, a.shape[1]), p[2]>>])]]

GaussColumns(a) ==
    [shape |-> a.shape,
     val |-> [p \in DOMAIN a.val |->
                 Blur3(a.val[<<p[1], Reflect(p[2] - 1, a.shape[2])>>], a.val[p],
                       a.val[<<p[1], Reflect(p[2] + 1, a.shape[2])>>])]]

gauss_filter_multidimensional(a) == GaussColumns(GaussRows(a))

\* 1 / a, numpy true division.
Reciprocal(a) == Elementwise("/", Scalar(Q(1, 1)), a).ret

\* flat.fit_vignette_radial, for the radial polynomial of degree 0: the least
\* squares value is the mean of the pixels; nan pixels are left out, and
\* the fit fails on a pixel that is infinite or when no pixel is left.
NoParameters == <<>>

fit_vignette_radial(a) ==
    LET kept == {p \in DOMAIN a.val : ~IsNan(a.val[p])}
    IN  IF kept = {} \/ \E p \in kept : ~IsFinite(a.val[p])
        THEN [err |-> "NumericalFitError", parameters |-> NoParameters]
        ELSE [err |-> "none",
              parameters |-> <<RDiv(SumOver(a.val, kept), Q(Cardinality(kept), 1))>>]

\* flat.apply_vignette_radial: the model evaluated at every pixel of a shape.
apply_vignette_radial(shape, parameters) == Uniform(shape, parameters[1])

\* The cameras and the flat-field stacks the script is run on.  A dead pixel
\* reads the bias level, or one count below it.
FlatPatterns == {<<<<0, 1>>, <<2, 3>>>>, <<<<1, 0>>, <<3, 2>>>>}

FlatCameras ==
    {[bias |-> Q(b, 1),
      bayer_map |-> generate_bayer_map(FullImage(PyList(FlatShape), pat))] :
        b \in {1, 10}, pat \in FlatPatterns}

FlatScenes ==
    {[kind |-> k, at |-> p] :
        k \in {"even", "vignetted", "dead", "below_bias"},
        p \in {<<1, 1>>, <<2, 2>>, <<2, 3>>}}

\* Counts above the bias level at pixel p.
FlatLevel(scene, p) ==
    CASE scene.kind = "even" -> 4
      [] scene.kind = "vignetted" ->
            IF p[1] \in {1, FlatDim} \/ p[2] \in {1, FlatDim} THEN 2 ELSE 4
      [] scene.kind = "dead" -> IF p = scene.at THEN 0 ELSE 4
      [] scene.kind = "below_bias" -> IF p = scene.at THEN -1 ELSE 4

FlatMeanFrame(scene, cam) ==
    [shape |-> FlatShape,
     val |-> [p \in Idx(FlatShape) |-> RAdd(cam.bias, Q(FlatLevel(scene, p), 1))]]

FlatStdFrame == Uniform(FlatShape, Q(1, 1))

CorrectionFile == "flatfield_correction.npy"

CorrectionRawFile == "flatfield_correction_raw.npy"

FlatIdle ==
    /\ fpc = "idle"
    /\ flatCamera = [bias |-> Q(0, 1), bayer_map |-> NoBayerMap]
    /\ flatMean = NoArray
    /\ flatStds = NoArray
    /\ meanNormalised = NoArray
    /\ stdsNormalised = NoArray
    /\ flatfieldGauss = NoArray
    /\ correction = NoArray
    /\ correctionRaw = NoArray
    /\ correctionClipped = NoArray
    /\ flatParameters = NoParameters
    /\ flatFiles = [f \in {} |-> NoArray]
    /\ flatErr = "none"

(***************************************************************************)
(* The inputs the chain is run with.                                        *)
(***************************************************************************)
DataShapes == {<<r, c>> : r, c \in (2 * Border + 1) .. MaxDim}

FullShape == <<MaxDim, MaxDim>>

RowShape == <<1, MaxDim>>

ClippedFull == <<MaxDim - 2 * Border, MaxDim - 2 * Border>>

ClippedRow == <<1, MaxDim - 2 * Border>>

Ramp(shape) ==
    [shape |-> shape, val |-> [p \in Idx(shape) |-> Q(600 + 10 * p[1] + p[2], 1)]]

DataInputs == {Uniform(FullShape, Q(600, 1))} \cup {Ramp(s) : s \in DataShapes}

BiasFiles ==
    {Absent, File(Uniform(<<1, 1>>, Q(0, 1))), File(Uniform(FullShape, Q(528, 1))),
     File(Uniform(RowShape, Q(520, 1)))}

DarkFiles ==
    {Absent, File(Uniform(<<1, 1>>, Q(0, 1))), File(Uniform(FullShape, Q(1, 1000)))}

FlatFiles ==
    {Absent, File(Uniform(<<1, 1>>, Q(0, 1))), File(Uniform(<<1, 1>>, Q(1, 1))),
     File(Uniform(ClippedFull, Q(2, 1))), File(Uniform(ClippedRow, Q(2, 1)))}

GainFiles ==
    {Absent, File(Uniform(<<1, 1>>, Q(0, 1))), File(Uniform(<<1, 1>>, Q(1, 1))),
     File(Uniform(ClippedFull, Q(2, 1))), File(Uniform(RowShape, Q(2, 1)))}

\* Factor 1 at every ISO speed, and factor iso at ISO speed iso.
IsoFiles ==
    {Absent, File(Uniform(<<1, TableISOMax + 1>>, Q(1, 1))),
     File([shape |-> <<1, TableISOMax + 1>>,
           val |-> [p \in Idx(<<1, TableISOMax + 1>>) |-> Q(p[2] - 1, 1)]])}

Metadata == {[valid |-> TRUE, bias |-> Q(528, 1)], [valid |-> FALSE, bias |-> Q(0, 1)]}

ExposureTimes == {Q(2, 1), Q(1, 2)}

IsoInputs(d) ==
    {IsoValue("int", <<TableISOMax>>), IsoValue("numpy.int64", <<1>>),
     IsoValue("ndarray", [j \in 1 .. d.shape[1] |-> 1])}

(***************************************************************************)
(* The caller: it applies the stages in the order of the chain, each stage  *)
(* at most once, and may leave stages out.  A stage that raises ends it.    *)
(***************************************************************************)
StageIndex(stage) ==
    CASE stage = "bias" -> 1
      [] stage = "dark_current" -> 2
      [] stage = "flat_field" -> 3
      [] stage = "iso" -> 4
      [] stage = "gain" -> 5

Position == IF hist = <<>> THEN 0 ELSE StageIndex(hist[Len(hist)].stage)

CanRun(stage) == err = "none" /\ Position < StageIndex(stage)

Leave(out, stage, arg) ==
    /\ data' = out.ret
    /\ argAfter' = out.arg
    /\ aliased' = out.alias
    /\ err' = out.err
    /\ store' = out.store
    /\ used' = IF stage = "bias" THEN out.used ELSE used
    /\ path' = IF stage = "iso" THEN out.used ELSE path
    /\ hist' = Append(hist, [stage |-> stage, arg |-> arg])
    /\ UNCHANGED <<meta, input, cvars, ivars, fvars>>

PipelineIdle ==
    /\ store = [k \in Kinds |-> Absent]
    /\ meta = [valid |-> FALSE, bias |-> Q(0, 1)]
    /\ input = NoArray
    /\ data = NoArray
    /\ argAfter = NoArray
    /\ aliased = FALSE
    /\ err = "none"
    /\ hist = <<>>
    /\ used = "none"
    /\ isoArg = IsoValue("none", <<>>)
    /\ path = "none"

InitPipeline ==
    /\ CameraIdle
    /\ IsoIdle
    /\ FlatIdle
    /\ store \in [Kinds -> {Absent} \cup BiasFiles \cup DarkFiles \cup FlatFiles
                               \cup GainFiles \cup IsoFiles]
    /\ store["bias"] \in BiasFiles
    /\ store["dark_current"] \in DarkFiles
    /\ store["flat_field"] \in FlatFiles
    /\ store["gain"] \in GainFiles
    /\ store["iso_lookup"] \in IsoFiles
    /\ meta \in Metadata
    /\ input \in DataInputs
    /\ data = input
    /\ argAfter = input
    /\ aliased = FALSE
    /\ err = "none"
    /\ hist = <<>>
    /\ used = "none"
    /\ isoArg = IsoValue("none", <<>>)
    /\ path = "none"

CorrectBias ==
    /\ CanRun("bias")
    /\ Leave(correct_bias(store, meta, data), "bias", Q(0, 1))
    /\ UNCHANGED isoArg

CorrectDarkCurrent ==
    /\ CanRun("dark_current")
    /\ \E t \in ExposureTimes :
          Leave(correct_dark_current(store, data, t), "dark_current", t)
    /\ UNCHANGED isoArg

CorrectFlatfield ==
    /\ CanRun("flat_field")
    /\ Leave(correct_flatfield(store, data), "flat_field", Q(0, 1))
    /\ UNCHANGED isoArg

NormaliseIso ==
    /\ CanRun("iso")
    /\ \E iso_values \in IsoInputs(data) :
          /\ Leave(normalise_iso(store, data, iso_values), "iso",
                   Q(iso_values.vals[1], 1))
          /\ isoArg' = iso_values

ConvertToPhotoelectrons ==
    /\ CanRun("gain")
    /\ Leave(convert_to_photoelectrons(store, data), "gain", Q(0, 1))
    /\ UNCHANGED isoArg

NextPipeline ==
    \/ CorrectBias
    \/ CorrectDarkCurrent
    \/ CorrectFlatfield
    \/ NormaliseIso
    \/ ConvertToPhotoelectrons

SpecPipeline == InitPipeline /\ [][NextPipeline]_vars

(***************************************************************************)
(* Properties of the correction stages.                                     *)
(***************************************************************************)
Last == hist[Len(hist)]

Ran(stages) ==
    /\ Len(hist) = Len(stages)
    /\ \A i \in 1 .. Len(stages) : hist[i].stage = stages[i]

\* The bias correct_bias resolves to with the products and metadata at hand.
ResolvedBias == IF store["bias"].exists THEN store["bias"].map ELSE Scalar(meta.bias)

\* x - b - r * t over the integers, for finite x, b, r and t.
BiasDarkValue(x, b, r, t) ==
    Norm(x[1] * b[2] * r[2] * t[2] - b[1] * x[2] * r[2] * t[2]
             - r[1] * t[1] * x[2] * b[2],
         x[2] * b[2] * r[2] * t[2])

BiasThenDark ==
    (Ran(<<"bias", "dark_current">>) /\ err = "none") =>
        LET b == ResolvedBias
            r == store["dark_current"].map
        IN  /\ data.shape = BShape(BShape(input.shape, b.shape), r.shape)
            /\ \A p \in Idx(data.shape) :
                  data.val[p] =
                      BiasDarkValue(Pick(input, p), Pick(b, p), Pick(r, p), hist[2].arg)

\* The worked example: x = 600, bias 528, rate 0.001 ADU/s, t = 2 s.
IsExample ==
    /\ Ran(<<"bias", "dark_current">>)
    /\ err = "none"
    /\ input = Uniform(FullShape, Q(600, 1))
    /\ ResolvedBias \in {Scalar(Q(528, 1)), Uniform(FullShape, Q(528, 1))}
    /\ store["dark_current"].map = Uniform(FullShape, Q(1, 1000))
    /\ hist[2].arg = Q(2, 1)

\* C1 as stated: bias, then dark current scaled by the exposure time, gives
\* x - bias - rate * t at every pixel, and 69.998 on the worked example.
C1_Original ==
    /\ BiasThenDark
    /\ IsExample => \A p \in Idx(data.shape) : data.val[p] = Q(69998, 1000)

\* C1 amended: bias, then dark current scaled by the exposure time, gives
\* x - bias - rate * t at every pixel, which is 71.998 on the worked example.
C1_BiasThenDark ==
    /\ BiasThenDark
    /\ IsExample => \A p \in Idx(data.shape) : data.val[p] = Q(71998, 1000)

C1_Witness == IsExample

\* C2: correct_bias uses the bias map file when it exists; without the file
\* and with valid metadata it uses the metadata scalar and returns
\* data - bias without an error; the metadata is never used when the file
\* exists.
C2_BiasResolution ==
    Ran(<<"bias">>) =>
        /\ store["bias"].exists =>
              /\ used # "metadata"
              /\ err = "none" =>
                    /\ used = "map"
                    /\ \A p \in Idx(data.shape) :
                          data.val[p] = RSub(Pick(input, p), Pick(store["bias"].map, p))
        /\ (~store["bias"].exists /\ meta.valid) =>
              /\ err = "none"
              /\ used = "metadata"
              /\ data.shape = input.shape
              /\ \A p \in Idx(data.shape) : data.val[p] = RSub(input.val[p], meta.bias)

C2_Witness ==
    /\ Ran(<<"bias">>)
    /\ ~store["bias"].exists
    /\ meta.valid
    /\ used = "metadata"
    /\ data # NoArray

C4_GainFallback ==
    (hist # <<>> /\ Last.stage = "gain" /\ ~store["gain"].exists /\ meta.valid) =>
        /\ err = "none"
        /\ data # NoArray

\* C5: flat-field correction and gain conversion fail (and return no array)
\* whenever the map's shape differs from the shape of the (clipped, for the
\* flat field) data; a mismatching map is never silently broadcast.
C5_ShapeMismatch ==
    /\ (hist # <<>> /\ Last.stage = "flat_field" /\ store["flat_field"].exists
            /\ store["flat_field"].map.shape # clip_data(argAfter).shape) =>
          (err # "none" /\ data = NoArray)
    /\ (hist # <<>> /\ Last.stage = "gain" /\ store["gain"].exists
            /\ store["gain"].map.shape # argAfter.shape) =>
          (err # "none" /\ data = NoArray)

\* C9: every stage leaves the array it was given unchanged and returns
\* another array, and leaves the calibration products and metadata as they
\* were.
C9_NoMutation ==
    [][/\ argAfter' = data
       /\ aliased' = FALSE
       /\ store' = store
       /\ meta' = meta]_vars

C9_Witness ==
    /\ hist # <<>>
    /\ err = "none"
    /\ data # argAfter
    /\ data # NoArray

ZeroValued(a) == \A p \in Idx(a.shape) : a.val[p] = Q(0, 1)

UnitValued(a) == \A p \in Idx(a.shape) : a.val[p] = Q(1, 1)

\* The artifact is a scalar, a 1x1 map or a map of the given shape.
Fits(a, shape) == a.shape \in {<<>>, <<1, 1>>, shape}

FullChain ==
    /\ Ran(<<"bias", "dark_current", "flat_field", "iso", "gain">>)
    /\ err = "none"

\* C10 as stated: the full chain with zero-valued bias, dark-current,
\* flat-field and gain artifacts returns its input, values and shape.
C10_Original ==
    (/\ FullChain
     /\ ZeroValued(ResolvedBias)
     /\ ZeroValued(store["dark_current"].map)
     /\ ZeroValued(store["flat_field"].map)
     /\ ZeroValued(store["gain"].map)) => data = input

NeutralArtifacts ==
    /\ ZeroValued(ResolvedBias)
    /\ Fits(ResolvedBias, input.shape)
    /\ ZeroValued(store["dark_current"].map)
    /\ Fits(store["dark_current"].map, input.shape)
    /\ UnitValued(store["flat_field"].map)
    /\ Fits(store["flat_field"].map, clip_data(input).shape)
    /\ Lookup(store["iso_lookup"].map, hist[4].arg[1]) = Q(1, 1)
    /\ UnitValued(store["gain"].map)
    /\ Fits(store["gain"].map, clip_data(input).shape)

\* C10 amended: the full chain with zero-valued bias and dark-current
\* artifacts and unit-valued flat-field, ISO factor and gain, each a scalar,
\* a 1x1 map or of the shape of the data it meets, changes no pixel value:
\* it returns the input with the border clipped off by the flat-field stage.
C10_NeutralChain == (FullChain /\ NeutralArtifacts) => data = clip_data(input)

C10_Witness ==
    /\ FullChain
    /\ NeutralArtifacts
    /\ data # input
    /\ data.shape # <<0, 0>>

(***************************************************************************)
(* Constructing, writing and reading a Camera.                              *)
(***************************************************************************)
InitCamera ==
    /\ PipelineIdle
    /\ CameraIdle
    /\ IsoIdle
    /\ FlatIdle

Construct ==
    /\ camState = "none"
    /\ \E dp \in DeviceInputs, ip \in ImageInputs, s \in SettingsInputs :
          LET out == Camera_init(dp, ip, s)
          IN  /\ camArgs' = <<dp, ip, s>>
              /\ camera' = out.ret
              /\ camErr' = out.err
              /\ camState' = IF out.err = "none" THEN "made" ELSE "failed"
    /\ UNCHANGED <<camFile, camRead, pvars, ivars, fvars>>

WriteToFile ==
    /\ camState = "made"
    /\ camFile = NoFile
    /\ camFile' = Camera_as_dict(camera)
    /\ UNCHANGED <<camState, camArgs, camera, camErr, camRead, pvars, ivars, fvars>>

ReadFromFile ==
    /\ camState = "made"
    /\ camFile # NoFile
    /\ camRead = NoCamera
    /\ LET out == read_from_file(camFile)
       IN  /\ camRead' = out.ret
           /\ camErr' = out.err
    /\ UNCHANGED <<camState, camArgs, camera, camFile, pvars, ivars, fvars>>

\* The metadata file as read_from_file may find it: the same three groups
\* written in another order, by hand or by another JSON writer.
ReorderFile ==
    /\ camState = "made"
    /\ camFile # NoFile
    /\ camRead = NoCamera
    /\ camErr = "none"
    /\ \E perm \in [1 .. 3 -> 1 .. 3] :
          /\ {perm[i] : i \in 1 .. 3} = 1 .. 3
          /\ camFile' = [i \in 1 .. 3 |-> camFile[perm[i]]]
          /\ camFile' # camFile
    /\ UNCHANGED <<camState, camArgs, camera, camErr, camRead, pvars, ivars, fvars>>

NextCamera ==
    \/ Construct
    \/ WriteToFile
    \/ ReorderFile
    \/ ReadFromFile

SpecCamera == InitCamera /\ [][NextCamera]_vars

\* C7: the Bayer map has the sensor's shape and holds, at every pixel
\* (r, c) counted from 0, bayer_pattern[r mod 2][c mod 2].
C7_BayerMapTiles ==
    camState = "made" =>
        /\ camera.bayer_map.shape = camera.image["shape"].v
        /\ DOMAIN camera.bayer_map.val = Idx(camera.image["shape"].v)
        /\ \A p \in Idx(camera.image["shape"].v) :
              camera.bayer_map.val[p] =
                  camera.image["bayer_pattern"][((p[1] - 1) % 2) + 1][((p[2] - 1) % 2) + 1]

C7_Witness ==
    /\ camState = "made"
    /\ camera.image["shape"].v = <<MaxSensorDim, MaxSensorDim>>
    /\ camera.image["bayer_pattern"] = <<<<0, 1>>, <<2, 3>>>>
    /\ camera.bayer_map.val[<<2, 1>>] = 2

MissingField ==
    /\ camArgs # <<>>
    /\ \/ DeviceFields \ DOMAIN camArgs[1] # {}
       \/ ImageFields \ DOMAIN camArgs[2] # {}
       \/ SettingsFields \ DOMAIN camArgs[3] # {}

InitIso ==
    /\ PipelineIdle
    /\ CameraIdle
    /\ IsoIdle
    /\ FlatIdle

\* Lines 16-33: the camera and the mean and standard-deviation stacks.
LoadData ==
    /\ ipc = "idle"
    /\ \E cam \in IsoCameras, speeds \in IsoSpeedLists, scene \in Scenes :
          /\ isoCamera' = cam
          /\ isos' = speeds
          /\ means' = [i \in 1 .. Len(speeds) |-> MeanFrame(scene, speeds[i])]
          /\ stds' = [i \in 1 .. Len(speeds) |-> StdFrame(scene, speeds[i])]
    /\ ipc' = "loaded"
    /\ UNCHANGED <<ratios, ratiosMean, ratiosVar, isoModel, isoFiles, isoErr,
                   pvars, cvars, fvars>>

\* Lines 36-41: bias correction (the relative errors are only printed).
BiasCorrect ==
    /\ ipc = "loaded"
    /\ means' = correct_bias_stack(isoCamera, means)
    /\ ipc' = "bias_corrected"
    /\ UNCHANGED <<isoCamera, isos, stds, ratios, ratiosMean, ratiosVar, isoModel,
                   isoFiles, isoErr, pvars, cvars, fvars>>

\* Line 44: the assertion on the lowest ISO speed.
CheckLowestIso ==
    /\ ipc = "bias_corrected"
    /\ IF LowestIsoCheck(isos, isoCamera)
       THEN ipc' = "checked" /\ isoErr' = isoErr
       ELSE ipc' = "failed" /\ isoErr' = "AssertionError"
    /\ UNCHANGED <<isoCamera, isos, means, stds, ratios, ratiosMean, ratiosVar,
                   isoModel, isoFiles, pvars, cvars, fvars>>

\* Lines 48-51: the ratios to the lowest ISO speed, their means and spreads.
NormaliseRatios ==
    /\ ipc = "checked"
    /\ ratios' = normalise_ratios(isos, means)
    /\ ratiosMean' = [i \in 1 .. Len(means) |-> ImageMean(normalise_ratios(isos, means)[i])]
    /\ ratiosVar' = [i \in 1 .. Len(means) |-> ImageVar(normalise_ratios(isos, means)[i])]
    /\ ipc' = "normalised"
    /\ UNCHANGED <<isoCamera, isos, means, stds, isoModel, isoFiles, isoErr,
                   pvars, cvars, fvars>>

\* Line 54: the fit.
FitModel ==
    /\ ipc = "normalised"
    /\ \E out \in fit_iso_normalisation_relation(isos, ratiosMean, ratiosVar,
                      isoCamera.ISO_min, isoCamera.ISO_max) :
          /\ isoModel' = out.model
          /\ isoErr' = out.err
          /\ ipc' = IF out.err = "none" THEN "fitted" ELSE "failed"
    /\ UNCHANGED <<isoCamera, isos, means, stds, ratios, ratiosMean, ratiosVar,
                   isoFiles, pvars, cvars, fvars>>

WriteFile(name, contents) ==
    isoFiles' = [f \in DOMAIN isoFiles \cup {name} |->
                    IF f = name THEN contents ELSE isoFiles[f]]

\* Lines 58-60: the observed factors.
SaveData ==
    /\ ipc = "fitted"
    /\ WriteFile("iso_data.npy", <<isos, ratiosMean, ratiosVar>>)
    /\ ipc' = "data_saved"
    /\ UNCHANGED <<isoCamera, isos, means, stds, ratios, ratiosMean, ratiosVar,
                   isoModel, isoErr, pvars, cvars, fvars>>

\* Lines 63-64: the model.
SaveModel ==
    /\ ipc = "data_saved"
    /\ WriteFile("iso_normalisation_model.csv", <<isoModel>>)
    /\ ipc' = "model_saved"
    /\ UNCHANGED <<isoCamera, isos, means, stds, ratios, ratiosMean, ratiosVar,
                   isoModel, isoErr, pvars, cvars, fvars>>

\* Lines 68-71: the lookup table.
SaveLookupTable ==
    /\ ipc = "model_saved"
    /\ WriteFile("iso_normalisation_lookup_table.csv",
                 savetxt(lookup_table(isoModel, isoCamera.ISO_max)))
    /\ ipc' = "done"
    /\ UNCHANGED <<isoCamera, isos, means, stds, ratios, ratiosMean, ratiosVar,
                   isoModel, isoErr, pvars, cvars, fvars>>

NextIso ==
    \/ LoadData
    \/ BiasCorrect
    \/ CheckLowestIso
    \/ NormaliseRatios
    \/ FitModel
    \/ SaveData
    \/ SaveModel
    \/ SaveLookupTable

SpecIso == InitIso /\ [][NextIso]_vars

NothingProduced ==
    /\ ratios = <<>>
    /\ ratiosMean = <<>>
    /\ isoModel = NoModel
    /\ DOMAIN isoFiles = {}

TableFile == "iso_normalisation_lookup_table.csv"

\* C11: the lookup table the script writes has exactly ISO_max + 1 rows, in
\* increasing order of ISO speed; row i (counted from 0) holds the speed i and
\* the factor of the fitted model at i, as printed with six decimals, so the
\* factor of a speed is found by indexing the table with that speed.
C11_RowPerSpeed ==
    TableFile \in DOMAIN isoFiles =>
        /\ DOMAIN isoFiles[TableFile] = 1 .. isoCamera.ISO_max + 1
        /\ \A i \in 0 .. isoCamera.ISO_max :
              /\ isoFiles[TableFile][i + 1][1] = i
              /\ isoFiles[TableFile][i + 1][2] = Round6(Evaluate(isoModel, i))
        /\ \A i, j \in DOMAIN isoFiles[TableFile] :
              i < j => isoFiles[TableFile][i][1] < isoFiles[TableFile][j][1]

C11_Witness ==
    /\ ipc = "done"
    /\ TableFile \in DOMAIN isoFiles
    /\ isoModel.slope = Q(1, 3)
    /\ isoFiles[TableFile][isoCamera.ISO_max + 1][1] = isoCamera.ISO_max
    /\ isoFiles[TableFile][isoCamera.ISO_max + 1][2] # Evaluate(isoModel, isoCamera.ISO_max)

\* A factor of the file counted in units of 1 / Decimals.
Micro(v) == v[1] * (Decimals \div v[2])

C15_UnitRatioAndWeights ==
    ratios # <<>> =>
        /\ \A p \in DOMAIN ratios[ArgMinIso(isos)].val :
              ratios[ArgMinIso(isos)].val[p] = Q(1, 1)
        /\ ratiosMean[ArgMinIso(isos)] = Q(1, 1)
        /\ \A i \in DOMAIN ratiosVar :
              IsFinite(ratiosVar[i]) /\ ratiosVar[i] # Q(0, 1)

\* The table normalise_iso loaded, and the factor it holds for pixel p.
LoadedTable == store["iso_lookup"].map

FactorAt(p) ==
    Lookup(LoadedTable, isoArg.vals[IF isoArg.type = "ndarray" THEN p[1] ELSE 1])

\* A scalar of any numeric type.
isinstance_any_scalar(iso_values) == iso_values.type \in ScalarTypes

\* C14 as stated: normalise_iso takes the single-ISO path exactly when the ISO
\* value is a scalar of whatever numeric type (a Python int or float, or a
\* numpy scalar read from an array of ISO speeds) and the per-frame path
\* exactly when it is an array; on both paths every pixel is divided by a
\* factor of the one loaded lookup table.
C14_PathByScalar ==
    (hist # <<>> /\ Last.stage = "iso" /\ err = "none") =>
        /\ path = "single" <=> isinstance_any_scalar(isoArg)
        /\ path = "multiple" <=> isoArg.type = "ndarray"
        /\ \A p \in DOMAIN data.val : data.val[p] = RDiv(argAfter.val[p], FactorAt(p))

\* read_from_file has been called on the metadata file of the camera.
ReadBack == camState = "made" /\ camFile # NoFile /\ (camRead # NoCamera \/ camErr # "none")

\* C16 as stated: reading the file a Camera was written to gives a Camera
\* whose device, image and settings records and whose Bayer map equal the
\* original's, and each group of the file goes to the record of its name
\* whatever the order of the groups in the file.
C16_RoundTrip ==
    ReadBack =>
        /\ camErr = "none"
        /\ camRead.device = camera.device
        /\ camRead.image = camera.image
        /\ camRead.settings = camera.settings
        /\ camRead.bayer_map = camera.bayer_map

(***************************************************************************)
(* The run of calibration/flatfield.py, statement by statement.             *)
(***************************************************************************)
InitFlat ==
    /\ PipelineIdle
    /\ CameraIdle
    /\ IsoIdle
    /\ FlatIdle

\* Lines 19-45: the camera and the mean and standard-deviation images.
LoadFlat ==
    /\ fpc = "idle"
    /\ \E cam \in FlatCameras, scene \in FlatScenes :
          /\ flatCamera' = cam
          /\ flatMean' = FlatMeanFrame(scene, cam)
          /\ flatStds' = FlatStdFrame
    /\ fpc' = "loaded"
    /\ UNCHANGED <<meanNormalised, stdsNormalised, flatfieldGauss, correction,
                   correctionRaw, correctionClipped, flatParameters, flatFiles,
                   flatErr, pvars, cvars, ivars>>

\* Line 48: bias correction.
FlatBiasCorrect ==
    /\ fpc = "loaded"
    /\ flatMean' = correct_bias_stack(flatCamera, <<flatMean>>)[1]
    /\ fpc' = "bias_corrected"
    /\ UNCHANGED <<flatCamera, flatStds, meanNormalised, stdsNormalised,
                   flatfieldGauss, correction, correctionRaw, correctionClipped,
                   flatParameters, flatFiles, flatErr, pvars, cvars, ivars>>

\* Line 51: the channels normalised.
NormaliseRGBG2 ==
    /\ fpc = "bias_corrected"
    /\ meanNormalised' = normalise_RGBG2(flatMean, flatStds, flatCamera.bayer_map).mean
    /\ stdsNormalised' = normalise_RGBG2(flatMean, flatStds, flatCamera.bayer_map).stds
    /\ fpc' = "normalised"
    /\ UNCHANGED <<flatCamera, flatMean, flatStds, flatfieldGauss, correction,
                   correctionRaw, correctionClipped, flatParameters, flatFiles,
                   flatErr, pvars, cvars, ivars>>

\* Line 55: the smoothed flat field.
GaussFilter ==
    /\ fpc = "normalised"
    /\ flatfieldGauss' = gauss_filter_multidimensional(meanNormalised)
    /\ fpc' = "smoothed"
    /\ UNCHANGED <<flatCamera, flatMean, flatStds, meanNormalised, stdsNormalised,
                   correction, correctionRaw, correctionClipped, flatParameters,
                   flatFiles, flatErr, pvars, cvars, ivars>>

\* Lines 58-59: the correction factors.
CalculateCorrection ==
    /\ fpc = "smoothed"
    /\ correction' = Reciprocal(flatfieldGauss)
    /\ correctionRaw' = Reciprocal(meanNormalised)
    /\ fpc' = "calculated"
    /\ UNCHANGED <<flatCamera, flatMean, flatStds, meanNormalised, stdsNormalised,
                   flatfieldGauss, correctionClipped, flatParameters, flatFiles,
                   flatErr, pvars, cvars, ivars>>

\* Lines 62-63: both correction maps saved.
SaveCorrection ==
    /\ fpc = "calculated"
    /\ flatFiles' = [f \in DOMAIN flatFiles \cup {CorrectionFile, CorrectionRawFile} |->
                        IF f = CorrectionFile THEN correction
                        ELSE IF f = CorrectionRawFile THEN correctionRaw
                        ELSE flatFiles[f]]
    /\ fpc' = "saved"
    /\ UNCHANGED <<flatCamera, flatMean, flatStds, meanNormalised, stdsNormalised,
                   flatfieldGauss, correction, correctionRaw, correctionClipped,
                   flatParameters, flatErr, pvars, cvars, ivars>>

\* Lines 67-74: the border removed and the vignetting model fitted.
FitVignette ==
    /\ fpc = "saved"
    /\ correctionClipped' = clip_data(correction)
    /\ flatParameters' = fit_vignette_radial(clip_data(correction)).parameters
    /\ flatErr' = fit_vignette_radial(clip_data(correction)).err
    /\ fpc' = IF fit_vignette_radial(clip_data(correction)).err = "none"
              THEN "fitted" ELSE "failed"
    /\ UNCHANGED <<flatCamera, flatMean, flatStds, meanNormalised, stdsNormalised,
                   flatfieldGauss, correction, correctionRaw, flatFiles, pvars,
                   cvars, ivars>>

\* Lines 85-95: the parameters and the modelled correction map saved.
SaveModelled ==
    /\ fpc = "fitted"
    /\ flatFiles' = [f \in DOMAIN flatFiles \cup {"flatfield_parameters.csv",
                                                  "flatfield_correction_modelled.npy"} |->
                        IF f = "flatfield_parameters.csv"
                        THEN [shape |-> <<1, Len(flatParameters)>>,
                              val |-> [p \in Idx(<<1, Len(flatParameters)>>) |->
                                          flatParameters[p[2]]]]
                        ELSE IF f = "flatfield_correction_modelled.npy"
                        THEN apply_vignette_radial(correction.shape, flatParameters)
                        ELSE flatFiles[f]]
    /\ fpc' = "done"
    /\ UNCHANGED <<flatCamera, flatMean, flatStds, meanNormalised, stdsNormalised,
                   flatfieldGauss, correction, correctionRaw, correctionClipped,
                   flatParameters, flatErr, pvars, cvars, ivars>>

NextFlat ==
    \/ LoadFlat
    \/ FlatBiasCorrect
    \/ NormaliseRGBG2
    \/ GaussFilter
    \/ CalculateCorrection
    \/ SaveCorrection
    \/ FitVignette
    \/ SaveModelled

SpecFlat == InitFlat /\ [][NextFlat]_vars

\* C13 as stated: every factor of every correction map the flat-field script
\* saves, smoothed and raw, is finite and strictly positive.
C13_PositiveFinite ==
    \A f \in DOMAIN flatFiles \cap {CorrectionFile, CorrectionRawFile} :
        \A p \in DOMAIN flatFiles[f].val :
            IsFinite(flatFiles[f].val[p]) /\ flatFiles[f].val[p][1] > 0

====
